---- MODULE Spec2Model ----
(***************************************************************************)
(* pug_cli (src/src/lib.rs): a facade over the external `pug` executable.  *)
(*                                                                         *)
(* The module models                                                       *)
(*   - PugOptions, its builder methods and its conversion into the         *)
(*     argument tokens (IntoIterator for PugOptions),                      *)
(*   - PugJsonObject and its conversion into one token,                    *)
(*   - CompileError and its Display rendering,                             *)
(*   - process_output, the classification of a finished process,           *)
(*   - evaluate_with_options and evaluate_string_with_options as state     *)
(*     machines of the caller, running against a child process and the     *)
(*     pipes std::process creates for it.                                  *)
(*                                                                         *)
(* Representation.  Argument tokens are TLA+ strings.  A PathBuf is a      *)
(* sequence of units, each a fragment of valid text or the unit "\\xFF",   *)
(* one byte that is not valid UTF-8.  A byte stream is a sequence of       *)
(* numbers 0..255, a text (String) is a sequence of fragments: a decoded   *)
(* stream has one character per fragment (REPLACEMENT_CHARACTER stands for *)
(* U+FFFD), the description of an io::Error is one opaque fragment.        *)
(***************************************************************************)
EXTENDS Integers, Sequences, FiniteSets, TLC

(***************************************************************************)
(* Bounds of the model.                                                    *)
(***************************************************************************)
\* longest template (in bytes) handed to evaluate_string_with_options, and
\* longest template file
MaxTemplate == 2
\* most bytes the child writes to its standard output
MaxOut == 2
\* most bytes the child writes to its standard error
MaxErr == 2
\* capacity of an operating-system pipe, in bytes
PipeCap == 1
\* longest message rendered by Display in SpecDisplay
MaxMsg == 3
\* longest captured stream handed to process_output in SpecOutput
MaxStream == 2

(***************************************************************************)
(* Option<T>                                                               *)
(***************************************************************************)
Some(x) == [some |-> TRUE, v |-> x]

\* None, with a placeholder of the payload's shape so that values compare
None(placeholder) == [some |-> FALSE, v |-> placeholder]

(***************************************************************************)
(* Paths, texts and bytes                                                  *)
(***************************************************************************)
\* the unit of a path that is one byte outside UTF-8
InvalidUnit == "\\xFF"

REPLACEMENT_CHARACTER == "U+FFFD"

NoPath == <<>>

\* Path::to_string_lossy: valid text is kept, an invalid byte becomes U+FFFD
RECURSIVE to_string_lossy(_)
to_string_lossy(path) ==
    IF path = <<>> THEN ""
    ELSE (IF Head(path) = InvalidUnit THEN REPLACEMENT_CHARACTER ELSE Head(path))
         \o to_string_lossy(Tail(path))

\* the bytes the streams of the model carry: 'a', and 0xFF, which no UTF-8
\* text contains
Bytes == {97, 255}

\* the character of an ASCII byte
Chr(b) ==
    CASE b = 97 -> "a"
      [] b = 34 -> "\""
      [] b = 92 -> "\\"
      [] b = 10 -> "\n"
      [] OTHER  -> "?"

\* String::from_utf8_lossy on a stream of ASCII bytes and bytes >= 0xF8
\* (bytes that begin no UTF-8 sequence): each such byte becomes one U+FFFD
from_utf8_lossy(bytes) ==
    [i \in 1..Len(bytes) |->
        IF bytes[i] < 128 THEN Chr(bytes[i]) ELSE REPLACEMENT_CHARACTER]

\* all sequences over S of length at most n
SeqsUpTo(S, n) == UNION {[1..k -> S] : k \in 0..n}

(***************************************************************************)
(* PugJsonObject                                                           *)
(***************************************************************************)
\* serde_json::Value, as far as its textual rendering goes
JsonValues ==
    { [t |-> "null", b |-> FALSE, s |-> ""],
      [t |-> "bool", b |-> TRUE,  s |-> ""],
      [t |-> "string", b |-> FALSE, s |-> "pug"] }

\* Display of serde_json::Value: the compact JSON text
JsonDisplay(value) ==
    CASE value.t = "null" -> "null"
      [] value.t = "bool" -> (IF value.b THEN "true" ELSE "false")
      [] OTHER -> "\"" \o value.s \o "\""

NoJson == [t |-> "null", b |-> FALSE, s |-> ""]

Json(value) == [tag |-> "Json", json |-> value, raw |-> "", path |-> NoPath]

Raw(text) == [tag |-> "Raw", json |-> NoJson, raw |-> text, path |-> NoPath]

Path(p) == [tag |-> "Path", json |-> NoJson, raw |-> "", path |-> p]

\* impl Into<String> for PugJsonObject
PugJsonObject_into(object) ==
    CASE object.tag = "Json" -> "'" \o JsonDisplay(object.json) \o "'"
      [] object.tag = "Raw"  -> object.raw
      [] OTHER               -> to_string_lossy(object.path)

(***************************************************************************)
(* PugOptions and its builder methods                                      *)
(***************************************************************************)
NoObject == None(Raw(""))

NoPathOpt == None(NoPath)

NoDoctype == None("")

\* PugOptions::new
PugOptions_new ==
    [ version  |-> FALSE,
      object   |-> NoObject,
      path     |-> NoPathOpt,
      out_dir  |-> NoPathOpt,
      no_debug |-> FALSE,
      client   |-> FALSE,
      stdin    |-> FALSE,
      pretty   |-> FALSE,
      doctype  |-> NoDoctype ]

version(self) == [self EXCEPT !.version = TRUE]

with_object(self, object) == [self EXCEPT !.object = Some(object)]

\* a with_path that keeps a path already set
with_path_keep(self, p) ==
    IF self.path.some THEN self ELSE [self EXCEPT !.path = Some(p)]

with_path(self, p) == [self EXCEPT !.path = Some(p)]

out_dir(self, p) == [self EXCEPT !.out_dir = Some(p)]

no_debug(self) == [self EXCEPT !.no_debug = TRUE]

client(self) == [self EXCEPT !.client = TRUE]

stdin(self) == [self EXCEPT !.stdin = TRUE]

pretty(self) == [self EXCEPT !.pretty = TRUE]

doctype(self, dt) == [self EXCEPT !.doctype = Some(dt)]

\* Vec::push, when cond holds
PushIf(result, cond, token) == IF cond THEN Append(result, token) ELSE result

\* into_iter with the flags of pretty and no_debug emitted in the other order
into_iter_swapped(self) ==
    LET r1 == PushIf(<<>>, self.version, "--verison")
        r2 == PushIf(PushIf(r1, self.object.some, "--obj"),
                     self.object.some, PugJsonObject_into(self.object.v))
        r3 == PushIf(PushIf(r2, self.path.some, "--path"),
                     self.path.some, to_string_lossy(self.path.v))
        r4 == PushIf(PushIf(r3, self.out_dir.some, "--out"),
                     self.out_dir.some, to_string_lossy(self.out_dir.v))
        r5 == PushIf(r4, self.no_debug, "--no-debug")
        r6 == PushIf(r5, self.pretty, "--pretty")
        r7 == PushIf(r6, self.client, "--client")
    IN  PushIf(PushIf(r7, self.doctype.some, "--doctype"),
               self.doctype.some, self.doctype.v)

\* IntoIterator for PugOptions: the pushes onto `result`, in the code's order
into_iter(self) ==
    LET r1 == PushIf(<<>>, self.version, "--verison")
        r2 == PushIf(PushIf(r1, self.object.some, "--obj"),
                     self.object.some, PugJsonObject_into(self.object.v))
        r3 == PushIf(PushIf(r2, self.path.some, "--path"),
                     self.path.some, to_string_lossy(self.path.v))
        r4 == PushIf(PushIf(r3, self.out_dir.some, "--out"),
                     self.out_dir.some, to_string_lossy(self.out_dir.v))
        r5 == PushIf(r4, self.pretty, "--pretty")
        r6 == PushIf(r5, self.no_debug, "--no-debug")
        r7 == PushIf(r6, self.client, "--client")
    IN  PushIf(PushIf(r7, self.doctype.some, "--doctype"),
               self.doctype.some, self.doctype.v)

(***************************************************************************)
(* CompileError, Result<String, CompileError> and Display                  *)
(***************************************************************************)
\* no value yet: the call has not returned
NoResult == [kind |-> "None", text |-> <<>>, err |-> ""]

Ok(text) == [kind |-> "Ok", text |-> text, err |-> ""]

\* Err(CompileError::Io(e))
ErrIo(e) == [kind |-> "Io", text |-> <<>>, err |-> e]

\* Err(CompileError::PugError(message))
ErrPugError(message) == [kind |-> "PugError", text |-> message, err |-> ""]

\* Display of std::io::Error: the platform's description, one opaque fragment
IoDescription(e) ==
    CASE e = "NotFound"   -> <<"No such file or directory (os error 2)">>
      [] e = "BrokenPipe" -> <<"Broken pipe (os error 32)">>
      [] OTHER            -> <<"No child processes (os error 10)">>

\* char::escape_debug as `{:?}` of a str applies it (a single quote is kept)
escape_debug(c) ==
    CASE c = "\"" -> <<"\\", "\"">>
      [] c = "\\" -> <<"\\", "\\">>
      [] c = "\n" -> <<"\\", "n">>
      [] OTHER    -> <<c>>

\* `{:?}` of a String: the escaped characters between two double quotes
RECURSIVE EscapeAll(_)
EscapeAll(text) ==
    IF text = <<>> THEN <<>>
    ELSE escape_debug(Head(text)) \o EscapeAll(Tail(text))

fmt_Debug_str(text) == <<"\"">> \o EscapeAll(text) \o <<"\"">>

\* fmt::Display for CompileError
fmt_Display(error) ==
    IF error.kind = "PugError"
    THEN fmt_Debug_str(error.text)
    ELSE IoDescription(error.err)

(***************************************************************************)
(* io::Result<Output> and process_output                                   *)
(***************************************************************************)
OkOutput(status, out, err) ==
    [ok |-> TRUE, status |-> status, stdout |-> out, stderr |-> err, err |-> ""]

ErrOutput(e) ==
    [ok |-> FALSE, status |-> 0, stdout |-> <<>>, stderr |-> <<>>, err |-> e]

NoOutput == ErrOutput("")

\* a process_output that takes the exit status for the failure signal
process_output_by_status(output) ==
    IF output.ok
    THEN IF output.status # 0
         THEN ErrPugError(from_utf8_lossy(output.stderr))
         ELSE Ok(from_utf8_lossy(output.stdout))
    ELSE ErrIo(output.err)

process_output(output) ==
    IF output.ok
    THEN IF Len(output.stderr) > 0
         THEN ErrPugError(from_utf8_lossy(output.stderr))
         ELSE Ok(from_utf8_lossy(output.stdout))
    ELSE ErrIo(output.err)

(***************************************************************************)
(* The environment: the file system and the inputs of the entry points     *)
(***************************************************************************)
HelloPug == <<"test/hello.pug">>

MissingPug == <<"test/missing", InvalidUnit, ".pug">>

\* File::open succeeds on exactly the paths of this domain
FileSystem == [p \in {HelloPug} |-> <<97>>]

Files == {HelloPug, MissingPug}

Templates == SeqsUpTo({97}, MaxTemplate)

\* the option sets the callers of the model pass in
CallerOptions ==
    { PugOptions_new,
      with_object(PugOptions_new, Raw("{\"language\": \"pug\"}")),
      pretty(with_path(version(PugOptions_new), HelloPug)) }

(***************************************************************************)
(* State                                                                   *)
(***************************************************************************)
VARIABLES
    entry,      \* the entry point called: "path" (evaluate_with_options),
                \* "string" (evaluate_string_with_options), "none"
    pc,         \* the caller's position in the entry point
    options,    \* the PugOptions value
    file,       \* evaluate_with_options' argument `file`
    s,          \* evaluate_string_with_options' argument `s`, as bytes
    command,    \* the Command being built
    child,      \* the Child handle: which pipe ends the caller holds
    proc,       \* the child process
    inPipe,     \* bytes the child can read from its standard input
    outPipe,    \* bytes in the pipe of the child's standard output
    errPipe,    \* bytes in the pipe of the child's standard error
    outLog,     \* every byte the child wrote to its standard output
    errLog,     \* every byte the child wrote to its standard error
    towrite,    \* what write_all still has to write
    captured,   \* the buffers wait_with_output reads the pipes into
    output,     \* the io::Result<Output> handed to process_output
    result,     \* the value the entry point returned
    panicked,   \* whether the call panicked
    spawns,     \* processes created by this invocation
    events,     \* the steps of the caller so far, in order
    tokens,     \* Some(token sequence) once into_iter consumed `options`
    rendered    \* Some(text) once Display rendered `result`

vars ==
    << entry, pc, options, file, s, command, child, proc, inPipe, outPipe,
       errPipe, outLog, errLog, towrite, captured, output, result, panicked,
       spawns, events, tokens, rendered >>

inputVars == << entry, file, s >>

pureVars == << tokens, rendered >>

pipeVars == << inPipe, outPipe, errPipe, outLog, errLog >>

NoTokens == None(<<>>)

NoRendered == None(<<>>)

\* Command::new("pug")
Command_new ==
    [ program |-> "pug", args |-> <<>>, stdin |-> "default",
      stdout |-> "default", stderr |-> "default", file |-> NoPath ]

NoChild == [stdin |-> "none", stdout |-> "none", stderr |-> "none"]

NoProc ==
    [ state |-> "none", status |-> 0, eof |-> FALSE, kind |-> "arbitrary",
      stdin |-> "null", stdout |-> "inherit", stderr |-> "inherit" ]

NoCaptured == [stdout |-> <<>>, stderr |-> <<>>]

\* everything but the inputs, before the call
Idle ==
    /\ pc = "start"
    /\ command = Command_new
    /\ child = NoChild
    /\ inPipe = <<>> /\ outPipe = <<>> /\ errPipe = <<>>
    /\ outLog = <<>> /\ errLog = <<>>
    /\ towrite = <<>>
    /\ captured = NoCaptured
    /\ output = NoOutput
    /\ result = NoResult
    /\ panicked = FALSE
    /\ spawns = 0
    /\ events = <<>>
    /\ tokens = NoTokens
    /\ rendered = NoRendered

ChildKinds == {"cooperative", "arbitrary"}

\* a call of either entry point, against a child of either kind
Init ==
    /\ Idle
    /\ entry \in {"path", "string"}
    /\ options \in CallerOptions
    /\ file \in (IF entry = "path" THEN Files ELSE {NoPath})
    /\ s \in (IF entry = "string" THEN Templates ELSE {<<>>})
    /\ proc \in {[NoProc EXCEPT !.kind = k] : k \in ChildKinds}

(***************************************************************************)
(* std::process: spawning, and the stages of Child::wait_with_output       *)
(***************************************************************************)
Resolve(cfg, default) == IF cfg = "default" THEN default ELSE cfg

\* Command::spawn: what is not configured is inherited
SpawnDefaults == [stdin |-> "inherit", stdout |-> "inherit", stderr |-> "inherit"]

\* Command::output: stdout and stderr are captured unless configured
OutputDefaults == [stdin |-> "null", stdout |-> "piped", stderr |-> "piped"]

HandleOf(stdio) == IF stdio = "piped" THEN "some" ELSE "none"

\* the process created from command cmd, and the handle to it
Spawned(cmd, defaults, kind) ==
    LET i == Resolve(cmd.stdin, defaults.stdin)
        o == Resolve(cmd.stdout, defaults.stdout)
        e == Resolve(cmd.stderr, defaults.stderr)
    IN  [ proc  |-> [ state |-> "running", status |-> 0, eof |-> FALSE,
                      kind |-> kind, stdin |-> i, stdout |-> o, stderr |-> e ],
          child |-> [ stdin |-> HandleOf(i), stdout |-> HandleOf(o),
                      stderr |-> HandleOf(e) ],
          input |-> IF i = "file" THEN FileSystem[cmd.file] ELSE <<>> ]

\* wait_with_output that joins the process before it lets go of its input
wait_with_output_wait_first == <<"wait", "drop_stdin", "collect">>

\* wait_with_output that never lets go of the child's input
wait_with_output_keep_stdin == <<"collect", "wait">>

\* Child::wait_with_output: drop(self.stdin.take()), then read the pipes to
\* their end, then self.wait()
wait_with_output_order == <<"drop_stdin", "collect", "wait">>

StageAfter(stage) ==
    LET i == CHOOSE k \in 1..Len(wait_with_output_order) :
                 wait_with_output_order[k] = stage
    IN  IF i = Len(wait_with_output_order)
        THEN "return_output"
        ELSE wait_with_output_order[i + 1]

FirstStage == wait_with_output_order[1]

Log(e) == events' = Append(events, e)

(***************************************************************************)
(* evaluate_string_with_options                                            *)
(***************************************************************************)
\* a child spawned without a pipe to its standard input
StringStdio_no_stdin_pipe == [stdin |-> "default", stdout |-> "piped"]

\* .stdin(Stdio::piped()).stdout(Stdio::piped()); stderr is not configured
StringStdio == [stdin |-> "piped", stdout |-> "piped"]

\* a failed step that is tried again from the spawn
Propagate_retry(e) == [pc |-> "spawn", result |-> NoResult]

\* .map_err(|e| CompileError::Io(e))?  -- the function returns the error
Propagate(e) == [pc |-> "done", result |-> ErrIo(e)]

\* options.stdin(); Command::new("pug"); .args(options).stdin(..).stdout(..)
S_Build ==
    /\ entry = "string" /\ pc = "start"
    /\ options' = stdin(options)
    /\ command' = [Command_new EXCEPT !.args = into_iter(options'),
                                      !.stdin = StringStdio.stdin,
                                      !.stdout = StringStdio.stdout]
    /\ pc' = "spawn"
    /\ Log("built")
    /\ UNCHANGED << inputVars, pureVars, pipeVars, child, proc, towrite,
                    captured, output, result, panicked, spawns >>

\* .spawn() succeeds
S_Spawn ==
    /\ entry = "string" /\ pc = "spawn"
    /\ LET sp == Spawned(command, SpawnDefaults, proc.kind)
       IN  /\ proc' = sp.proc
           /\ child' = sp.child
           /\ inPipe' = sp.input
    /\ spawns' = spawns + 1
    /\ towrite' = s
    /\ pc' = "unwrap"
    /\ Log("spawned")
    /\ UNCHANGED << inputVars, pureVars, options, command, outPipe, errPipe,
                    outLog, errLog, captured, output, result, panicked >>

\* .spawn() fails (no `pug` on the search path): map_err(..)?
S_SpawnFail ==
    /\ entry = "string" /\ pc = "spawn"
    /\ pc' = Propagate("NotFound").pc
    /\ result' = Propagate("NotFound").result
    /\ Log("spawn_failed")
    /\ UNCHANGED << inputVars, pureVars, pipeVars, options, command, child,
                    proc, towrite, captured, output, panicked, spawns >>

\* child.stdin.as_mut().unwrap()
S_Unwrap ==
    /\ entry = "string" /\ pc = "unwrap"
    /\ IF child.stdin = "some"
       THEN pc' = "write_all" /\ panicked' = FALSE /\ Log("unwrapped")
       ELSE pc' = "panicked" /\ panicked' = TRUE /\ Log("panicked")
    /\ UNCHANGED << inputVars, pureVars, pipeVars, options, command, child,
                    proc, towrite, captured, output, result, spawns >>

\* write_all: one more byte goes into the pipe; blocks while the pipe is full
S_Write ==
    /\ entry = "string" /\ pc = "write_all"
    /\ towrite # <<>>
    /\ proc.state = "running"
    /\ Len(inPipe) < PipeCap
    /\ inPipe' = Append(inPipe, Head(towrite))
    /\ towrite' = Tail(towrite)
    /\ UNCHANGED << inputVars, pureVars, pc, options, command, child, proc,
                    outPipe, errPipe, outLog, errLog, captured, output,
                    result, panicked, spawns, events >>

\* write_all: the read side of the pipe is gone (the child has exited):
\* the write fails, map_err(..)? returns, and `child` is dropped un-waited
S_WriteFail ==
    /\ entry = "string" /\ pc = "write_all"
    /\ towrite # <<>>
    /\ proc.state # "running"
    /\ pc' = Propagate("BrokenPipe").pc
    /\ result' = Propagate("BrokenPipe").result
    /\ child' = NoChild
    /\ Log("write_failed")
    /\ UNCHANGED << inputVars, pureVars, pipeVars, options, command, proc,
                    towrite, captured, output, panicked, spawns >>

\* write_all returns Ok(()): every byte is written; child.wait_with_output()
S_WriteDone ==
    /\ entry = "string" /\ pc = "write_all"
    /\ towrite = <<>>
    /\ pc' = FirstStage
    /\ Log("written")
    /\ UNCHANGED << inputVars, pureVars, pipeVars, options, command, child,
                    proc, towrite, captured, output, result, panicked,
                    spawns >>

(***************************************************************************)
(* evaluate_with_options                                                   *)
(***************************************************************************)
\* options.stdin().with_path(file); Command::new("pug")
P_Build ==
    /\ entry = "path" /\ pc = "start"
    /\ options' = with_path(stdin(options), file)
    /\ command' = Command_new
    /\ pc' = "open"
    /\ Log("built")
    /\ UNCHANGED << inputVars, pureVars, pipeVars, child, proc, towrite,
                    captured, output, result, panicked, spawns >>

\* if let Some(path) = &options.path { match File::open(path) {..} }
P_Open ==
    /\ entry = "path" /\ pc = "open"
    /\ IF ~options.path.some
       THEN pc' = "args" /\ Log("no_path") /\ UNCHANGED << command, result >>
       ELSE IF options.path.v \in DOMAIN FileSystem
       THEN /\ command' = [command EXCEPT !.stdin = "file",
                                          !.file = options.path.v]
            /\ pc' = "args" /\ Log("opened") /\ UNCHANGED result
       ELSE /\ result' = ErrIo("NotFound")
            /\ pc' = "done" /\ Log("open_failed") /\ UNCHANGED command
    /\ UNCHANGED << inputVars, pureVars, pipeVars, options, child, proc,
                    towrite, captured, output, panicked, spawns >>

\* command.args(options)
P_Args ==
    /\ entry = "path" /\ pc = "args"
    /\ command' = [command EXCEPT !.args = into_iter(options)]
    /\ pc' = "output"
    /\ Log("args")
    /\ UNCHANGED << inputVars, pureVars, pipeVars, options, child, proc,
                    towrite, captured, output, result, panicked, spawns >>

\* command.output(): the process is created, then wait_with_output
P_Spawn ==
    /\ entry = "path" /\ pc = "output"
    /\ LET sp == Spawned(command, OutputDefaults, proc.kind)
       IN  /\ proc' = sp.proc
           /\ child' = sp.child
           /\ inPipe' = sp.input
    /\ spawns' = spawns + 1
    /\ pc' = FirstStage
    /\ Log("spawned")
    /\ UNCHANGED << inputVars, pureVars, options, command, outPipe, errPipe,
                    outLog, errLog, towrite, captured, output, result,
                    panicked >>

\* command.output(): the process cannot be created; output() is Err(e)
P_SpawnFail ==
    /\ entry = "path" /\ pc = "output"
    /\ output' = ErrOutput("NotFound")
    /\ pc' = "process_output"
    /\ Log("spawn_failed")
    /\ UNCHANGED << inputVars, pureVars, pipeVars, options, command, child,
                    proc, towrite, captured, result, panicked, spawns >>

(***************************************************************************)
(* Child::wait_with_output, and process_output on what it returns          *)
(***************************************************************************)
\* drop(self.stdin.take()): the write side of the input pipe is closed
W_DropStdin ==
    /\ pc = "drop_stdin"
    /\ child' = [child EXCEPT !.stdin = "none"]
    /\ pc' = StageAfter("drop_stdin")
    /\ Log("released")
    /\ UNCHANGED << inputVars, pureVars, pipeVars, options, command, proc,
                    towrite, captured, output, result, panicked, spawns >>

\* read_to_end / read2: a byte of the child's standard output is collected
W_ReadOut ==
    /\ pc = "collect"
    /\ child.stdout = "some"
    /\ outPipe # <<>>
    /\ captured' = [captured EXCEPT !.stdout = Append(@, Head(outPipe))]
    /\ outPipe' = Tail(outPipe)
    /\ UNCHANGED << inputVars, pureVars, pc, options, command, child, proc,
                    inPipe, errPipe, outLog, errLog, towrite, output, result,
                    panicked, spawns, events >>

\* read2: a byte of the child's standard error is collected
W_ReadErr ==
    /\ pc = "collect"
    /\ child.stderr = "some"
    /\ errPipe # <<>>
    /\ captured' = [captured EXCEPT !.stderr = Append(@, Head(errPipe))]
    /\ errPipe' = Tail(errPipe)
    /\ UNCHANGED << inputVars, pureVars, pc, options, command, child, proc,
                    inPipe, outPipe, outLog, errLog, towrite, output, result,
                    panicked, spawns, events >>

\* every pipe the caller reads is at its end: empty, its write side closed
W_ReadEnd ==
    /\ pc = "collect"
    /\ child.stdout = "some" => (outPipe = <<>> /\ proc.state # "running")
    /\ child.stderr = "some" => (errPipe = <<>> /\ proc.state # "running")
    /\ pc' = StageAfter("collect")
    /\ Log("read")
    /\ UNCHANGED << inputVars, pureVars, pipeVars, options, command, child,
                    proc, towrite, captured, output, result, panicked,
                    spawns >>

\* self.wait() returns the status of the exited child, which is reaped
W_Wait ==
    /\ pc = "wait"
    /\ proc.state = "exited"
    /\ proc' = [proc EXCEPT !.state = "reaped"]
    /\ pc' = StageAfter("wait")
    /\ Log("waited")
    /\ UNCHANGED << inputVars, pureVars, pipeVars, options, command, child,
                    towrite, captured, output, result, panicked, spawns >>

\* self.wait()? fails at the level of the operating system
W_WaitFail ==
    /\ pc = "wait"
    /\ proc.state \in {"running", "exited"}
    /\ output' = ErrOutput("NoChild")
    /\ child' = NoChild
    /\ pc' = "process_output"
    /\ Log("wait_failed")
    /\ UNCHANGED << inputVars, pureVars, pipeVars, options, command, proc,
                    towrite, captured, result, panicked, spawns >>

\* Ok(Output { status, stdout, stderr })
W_Return ==
    /\ pc = "return_output"
    /\ output' = OkOutput(proc.status, captured.stdout, captured.stderr)
    /\ child' = NoChild
    /\ pc' = "process_output"
    /\ Log("returned")
    /\ UNCHANGED << inputVars, pureVars, pipeVars, options, command, proc,
                    towrite, captured, result, panicked, spawns >>

\* process_output(output), whose value the entry point returns
ProcessOutput ==
    /\ pc = "process_output"
    /\ result' = process_output(output)
    /\ pc' = "done"
    /\ Log("classified")
    /\ UNCHANGED << inputVars, pureVars, pipeVars, options, command, child,
                    proc, towrite, captured, output, panicked, spawns >>

(***************************************************************************)
(* The child process.  A cooperative child reads its standard input to the *)
(* end, then writes its output and exits; an arbitrary child reads,        *)
(* writes and exits whenever it likes.                                     *)
(***************************************************************************)
Running == proc.state = "running" /\ pc \notin {"done", "panicked"}

MayProduce == proc.kind = "arbitrary" \/ proc.eof

C_Read ==
    /\ Running
    /\ inPipe # <<>>
    /\ inPipe' = Tail(inPipe)
    /\ UNCHANGED << inputVars, pureVars, pc, options, command, child, proc,
                    outPipe, errPipe, outLog, errLog, towrite, captured,
                    output, result, panicked, spawns, events >>

\* a read returns 0: nothing is left and nobody holds the write side
C_SeeEOF ==
    /\ Running
    /\ ~proc.eof
    /\ inPipe = <<>>
    /\ child.stdin # "some"
    /\ proc' = [proc EXCEPT !.eof = TRUE]
    /\ UNCHANGED << inputVars, pureVars, pipeVars, pc, options, command,
                    child, towrite, captured, output, result, panicked,
                    spawns, events >>

\* the child writes byte b to its standard output
C_WriteOut(b) ==
    /\ Running /\ MayProduce
    /\ Len(outLog) < MaxOut
    /\ outLog' = Append(outLog, b)
    /\ IF proc.stdout = "piped"
       THEN Len(outPipe) < PipeCap /\ outPipe' = Append(outPipe, b)
       ELSE UNCHANGED outPipe
    /\ UNCHANGED << inputVars, pureVars, pc, options, command, child, proc,
                    inPipe, errPipe, errLog, towrite, captured, output,
                    result, panicked, spawns, events >>

\* the child writes byte b to its standard error: into the pipe if it has
\* one, else to the standard error it inherited from the caller
C_WriteErr(b) ==
    /\ Running /\ MayProduce
    /\ Len(errLog) < MaxErr
    /\ errLog' = Append(errLog, b)
    /\ IF proc.stderr = "piped"
       THEN Len(errPipe) < PipeCap /\ errPipe' = Append(errPipe, b)
       ELSE UNCHANGED errPipe
    /\ UNCHANGED << inputVars, pureVars, pc, options, command, child, proc,
                    inPipe, outPipe, outLog, towrite, captured, output,
                    result, panicked, spawns, events >>

ExitStatuses == {0, 1}

C_Exit(status) ==
    /\ Running /\ MayProduce
    /\ proc' = [proc EXCEPT !.state = "exited", !.status = status]
    /\ UNCHANGED << inputVars, pureVars, pipeVars, pc, options, command,
                    child, towrite, captured, output, result, panicked,
                    spawns, events >>

ChildStep ==
    \/ C_Read
    \/ C_SeeEOF
    \/ \E b \in Bytes : C_WriteOut(b)
    \/ \E b \in Bytes : C_WriteErr(b)
    \/ \E status \in ExitStatuses : C_Exit(status)

WaitWithOutput ==
    \/ W_DropStdin
    \/ W_ReadOut
    \/ W_ReadErr
    \/ W_ReadEnd
    \/ W_Wait
    \/ W_WaitFail
    \/ W_Return

Next ==
    \/ S_Build \/ S_Spawn \/ S_SpawnFail \/ S_Unwrap
    \/ S_Write \/ S_WriteFail \/ S_WriteDone
    \/ P_Build \/ P_Open \/ P_Args \/ P_Spawn \/ P_SpawnFail
    \/ WaitWithOutput
    \/ ProcessOutput
    \/ ChildStep

Spec == Init /\ [][Next]_vars

(***************************************************************************)
(* The call against a cooperative child, under fair scheduling: the        *)
(* caller and the child each take their next step when they can.           *)
(***************************************************************************)
LiveInit ==
    /\ Idle
    /\ entry = "string"
    /\ options \in CallerOptions
    /\ file = NoPath
    /\ s \in Templates
    /\ proc = [NoProc EXCEPT !.kind = "cooperative"]

LiveNext ==
    \/ S_Build \/ S_Spawn \/ S_SpawnFail \/ S_Unwrap
    \/ S_Write \/ S_WriteDone
    \/ W_DropStdin \/ W_ReadOut \/ W_ReadEnd
    \/ W_Wait \/ W_WaitFail \/ W_Return
    \/ ProcessOutput
    \/ ChildStep

LiveSpec == LiveInit /\ [][LiveNext]_vars /\ WF_vars(LiveNext)

(***************************************************************************)
(* The builder of PugOptions and its conversion into tokens                *)
(***************************************************************************)
Payloads ==
    {Json(value) : value \in JsonValues}
        \cup {Raw("{\"language\": \"pug\"}")}
        \cup {Path(p) : p \in Files}

Doctypes == {"html", "xml"}

Building == entry = "none" /\ pc = "start" /\ ~tokens.some

\* a builder method: `options` becomes new, nothing else changes
Builds(new) ==
    /\ Building
    /\ options' = new
    /\ UNCHANGED << inputVars, pipeVars, pc, command, child, proc, towrite,
                    captured, output, result, panicked, spawns, events,
                    tokens, rendered >>

B_version == Builds(version(options))

B_with_object(object) == Builds(with_object(options, object))

B_with_path(p) == Builds(with_path(options, p))

B_out_dir(p) == Builds(out_dir(options, p))

B_no_debug == Builds(no_debug(options))

B_client == Builds(client(options))

B_stdin == Builds(stdin(options))

B_pretty == Builds(pretty(options))

B_doctype(dt) == Builds(doctype(options, dt))

\* options.into_iter(), which consumes the option set
B_into_iter ==
    /\ Building
    /\ tokens' = Some(into_iter(options))
    /\ UNCHANGED << inputVars, pipeVars, pc, options, command, child, proc,
                    towrite, captured, output, result, panicked, spawns,
                    events, rendered >>

InitTokens ==
    /\ Idle
    /\ entry = "none"
    /\ options = PugOptions_new
    /\ file = NoPath
    /\ s = <<>>
    /\ proc = NoProc

NextTokens ==
    \/ B_version
    \/ \E object \in Payloads : B_with_object(object)
    \/ \E p \in Files : B_with_path(p)
    \/ \E p \in Files : B_out_dir(p)
    \/ B_no_debug
    \/ B_client
    \/ B_stdin
    \/ B_pretty
    \/ \E dt \in Doctypes : B_doctype(dt)
    \/ B_into_iter

SpecTokens == InitTokens /\ [][NextTokens]_vars

(***************************************************************************)
(* process_output on every finished process                                *)
(***************************************************************************)
IoErrors == {"NotFound", "BrokenPipe", "NoChild"}

Outputs ==
    { OkOutput(status, out, err) :
        status \in ExitStatuses,
        out \in SeqsUpTo(Bytes, MaxStream),
        err \in SeqsUpTo(Bytes, MaxStream) }
    \cup {ErrOutput(e) : e \in IoErrors}

InitOutput ==
    /\ entry = "none"
    /\ pc = "process_output"
    /\ options = PugOptions_new
    /\ file = NoPath
    /\ s = <<>>
    /\ proc = NoProc
    /\ command = Command_new
    /\ child = NoChild
    /\ inPipe = <<>> /\ outPipe = <<>> /\ errPipe = <<>>
    /\ outLog = <<>> /\ errLog = <<>>
    /\ towrite = <<>>
    /\ captured = NoCaptured
    /\ output \in Outputs
    /\ result = NoResult
    /\ panicked = FALSE
    /\ spawns = 0
    /\ events = <<>>
    /\ tokens = NoTokens
    /\ rendered = NoRendered

NextOutput == ProcessOutput

SpecOutput == InitOutput /\ [][NextOutput]_vars

(***************************************************************************)
(* Display of every CompileError                                           *)
(***************************************************************************)
Chars == {"a", "\"", "\\", "\n", REPLACEMENT_CHARACTER}

Errors ==
    {ErrPugError(m) : m \in SeqsUpTo(Chars, MaxMsg)}
        \cup {ErrIo(e) : e \in IoErrors}

\* format!("{}", error) on the error an entry point returned
FmtDisplay ==
    /\ pc = "done"
    /\ result.kind \in {"Io", "PugError"}
    /\ ~rendered.some
    /\ rendered' = Some(fmt_Display(result))
    /\ UNCHANGED << inputVars, pipeVars, pc, options, command, child, proc,
                    towrite, captured, output, result, panicked, spawns,
                    events, tokens >>

InitDisplay ==
    /\ entry = "none"
    /\ pc = "done"
    /\ options = PugOptions_new
    /\ file = NoPath
    /\ s = <<>>
    /\ proc = NoProc
    /\ command = Command_new
    /\ child = NoChild
    /\ inPipe = <<>> /\ outPipe = <<>> /\ errPipe = <<>>
    /\ outLog = <<>> /\ errLog = <<>>
    /\ towrite = <<>>
    /\ captured = NoCaptured
    /\ output = NoOutput
    /\ result \in Errors
    /\ panicked = FALSE
    /\ spawns = 0
    /\ events = <<>>
    /\ tokens = NoTokens
    /\ rendered = NoRendered

NextDisplay == FmtDisplay

SpecDisplay == InitDisplay /\ [][NextDisplay]_vars

(***************************************************************************)
(* Properties                                                              *)
(***************************************************************************)
IsPrefix(a, b) == Len(a) <= Len(b) /\ \A i \in 1..Len(a) : a[i] = b[i]

Occurs(e) == \E i \in 1..Len(events) : events[i] = e

Count(seq, x) == Cardinality({i \in 1..Len(seq) : seq[i] = x})

\* the call returned without an error of the operating system
ReturnedFromProcess == pc = "done" /\ result.kind \in {"Ok", "PugError"}

\* C1: whenever the compiler process wrote text to its standard error and
\* the call returned (not with an Io error), it returned PugError carrying
\* exactly that text, decoded, whatever the exit status -- for both entry
\* points.
C1_StderrIsPugError ==
    (ReturnedFromProcess /\ errLog # <<>>)
        => result = ErrPugError(from_utf8_lossy(errLog))

\* C1, for evaluate_with_options alone, where it holds
C1_StderrIsPugError_path ==
    (entry = "path" /\ ReturnedFromProcess /\ errLog # <<>>)
        => result = ErrPugError(from_utf8_lossy(errLog))

\* C2: process_output gives exactly one of three outcomes, decided by the
\* wait result, the captured stderr and the captured stdout alone: Err(Io)
\* for a failed wait/output call, else Err(PugError(stderr text)) for a
\* non-empty stderr, else Ok(stdout text) -- also for an empty stdout or a
\* non-zero exit status.
C2_Classification ==
    pc = "done" =>
        /\ ~output.ok => result = ErrIo(output.err)
        /\ (output.ok /\ output.stderr # <<>>) =>
               /\ result.kind = "PugError"
               /\ result.text = from_utf8_lossy(output.stderr)
        /\ (output.ok /\ output.stderr = <<>>) =>
               /\ result.kind = "Ok"
               /\ result.text = from_utf8_lossy(output.stdout)

\* a process that failed by its exit status alone is classified Ok
C2_Witness ==
    /\ pc = "done"
    /\ output.ok /\ output.status # 0
    /\ output.stderr = <<>> /\ output.stdout = <<>>
    /\ result = Ok(<<>>)

Flag(cond, flag) == IF cond THEN <<flag>> ELSE <<>>

FlagValue(opt, flag, value) == IF opt.some THEN <<flag, value>> ELSE <<>>

ExpectedTokens(o) ==
    Flag(o.version, "--verison")
        \o FlagValue(o.object, "--obj", PugJsonObject_into(o.object.v))
        \o FlagValue(o.path, "--path", to_string_lossy(o.path.v))
        \o FlagValue(o.out_dir, "--out", to_string_lossy(o.out_dir.v))
        \o Flag(o.pretty, "--pretty")
        \o Flag(o.no_debug, "--no-debug")
        \o Flag(o.client, "--client")
        \o FlagValue(o.doctype, "--doctype", o.doctype.v)

FlagTokens ==
    { "--verison", "--obj", "--path", "--out", "--pretty", "--no-debug",
      "--client", "--doctype" }

\* C3: the tokens of into_iter are, in this order: `--verison` if version;
\* `--obj` and the payload token; `--path` and the path; `--out` and the
\* directory; `--pretty`; `--no-debug`; `--client`; `--doctype` and its
\* value.  Nothing else is emitted (nothing for stdin), and each flag at
\* most once.
C3_Tokens ==
    tokens.some =>
        /\ tokens.v = ExpectedTokens(options)
        /\ tokens.v = ExpectedTokens([options EXCEPT !.stdin = ~options.stdin])
        /\ \A f \in FlagTokens : Count(tokens.v, f) <= 1

\* every option is set, the payload is a JSON value, a path is not UTF-8
C3_Witness ==
    /\ tokens.some
    /\ options.version /\ options.pretty /\ options.no_debug
    /\ options.client /\ options.stdin
    /\ options.object = Some(Json([t |-> "string", b |-> FALSE, s |-> "pug"]))
    /\ options.path = Some(HelloPug)
    /\ options.out_dir = Some(MissingPug)
    /\ options.doctype = Some("html")
    /\ Len(tokens.v) = 12
    /\ tokens.v[3] = "'\"pug\"'"

PipeEvents == {"spawned", "written", "released", "waited", "read"}

InPipeEvents(e) == e \in PipeEvents

\* C4, as claimed: in evaluate_string_with_options the events come in the
\* order: pipe opened, all bytes written, write side released, wait for the
\* exit, output read.
C4_WaitThenRead ==
    entry = "string" =>
        IsPrefix(SelectSeq(events, InPipeEvents),
                 <<"spawned", "written", "released", "waited", "read">>)

\* C4, amended: the order is pipe opened, all bytes written, write side
\* released, output read to its end, wait for the exit; the caller neither
\* reads the output nor waits while it holds the write side of the input.
C4_ReleaseThenReadThenWait ==
    entry = "string" =>
        /\ IsPrefix(SelectSeq(events, InPipeEvents),
                    <<"spawned", "written", "released", "read", "waited">>)
        /\ pc \in {"collect", "wait"} => child.stdin = "none"
        /\ Occurs("written") => towrite = <<>>

\* a template longer than the pipe went through all five events
C4_Witness ==
    /\ entry = "string"
    /\ Len(s) > PipeCap
    /\ SelectSeq(events, InPipeEvents)
           = <<"spawned", "written", "released", "read", "waited">>
    /\ pc = "done"

\* C5: when either entry point has returned, at most one process was
\* spawned, and a spawned process has been awaited (reaped).  (A return
\* after wait itself failed is left aside.)
C5_Reaped ==
    (pc = "done" /\ ~Occurs("wait_failed")) =>
        /\ spawns <= 1
        /\ spawns = 1 => proc.state = "reaped"

\* C6: for a path whose file cannot be opened, evaluate_with_options (and
\* evaluate, its case of the default options) returns Err(Io), never
\* PugError and never Ok, for every option set; no process is created.
C6_MissingFileIsIo ==
    (entry = "path" /\ file \notin DOMAIN FileSystem) =>
        /\ spawns = 0
        /\ result.kind \in {"None", "Io"}
        /\ pc = "done" => result.kind = "Io"

\* the option set passed in named a file that does exist
C6_Witness ==
    /\ entry = "path" /\ pc = "done"
    /\ file = MissingPug
    /\ options.version /\ options.pretty
    /\ result = ErrIo("NotFound")

\* the same with the default options: evaluate(file)
C6_Witness_evaluate ==
    /\ entry = "path" /\ pc = "done"
    /\ file = MissingPug
    /\ options = with_path(stdin(PugOptions_new), MissingPug)
    /\ result = ErrIo("NotFound")

\* C7: the Display rendering of PugError(m) is exactly m.
C7_DisplayIsMessage ==
    (rendered.some /\ result.kind = "PugError") => rendered.v = result.text

\* what the code renders instead: m escaped, between double quotes
C7_DisplayIsDebug ==
    (rendered.some /\ result.kind = "PugError") =>
        /\ Len(rendered.v) >= Len(result.text) + 2
        /\ rendered.v[1] = "\"" /\ rendered.v[Len(rendered.v)] = "\""

StringRun ==
    << "built", "spawned", "unwrapped", "written", "released", "read",
       "waited", "returned", "classified" >>

PathRun ==
    << "built", "opened", "args", "spawned", "released", "read", "waited",
       "returned", "classified" >>

\* the complete runs of an invocation: the successful one, and for each
\* fallible step the run that ends where that step fails (a failure inside
\* Command::output or wait_with_output comes back through process_output)
Runs ==
    IF entry = "string"
    THEN { StringRun,
           <<"built", "spawn_failed">>,
           <<"built", "spawned", "unwrapped", "write_failed">>,
           SubSeq(StringRun, 1, 6) \o <<"wait_failed", "classified">> }
    ELSE { PathRun,
           <<"built", "open_failed">>,
           <<"built", "opened", "args", "spawn_failed", "classified">>,
           SubSeq(PathRun, 1, 6) \o <<"wait_failed", "classified">> }

FailureEvents == {"open_failed", "spawn_failed", "write_failed", "wait_failed"}

Failed == \E e \in FailureEvents : Occurs(e)

\* C8: an invocation follows Built -> Spawning -> Running -> Completed, or
\* ends in Failed(Io) at the first fallible step that fails (open, spawn,
\* write, wait) with no later step and no second spawn; it yields exactly
\* one outcome, and Ok or PugError only after the process was reaped and
\* its whole output buffered.
C8_OneOutcome ==
    /\ \E run \in Runs : IsPrefix(events, run)
    /\ pc = "done" <=> events \in Runs
    /\ pc = "done" <=> result # NoResult
    /\ spawns <= 1
    /\ (pc = "done" /\ Failed) => result.kind = "Io"
    /\ (pc = "done" /\ ~Failed) =>
           /\ result.kind \in {"Ok", "PugError"}
           /\ proc.state = "reaped"
           /\ output = OkOutput(proc.status, outLog,
                                IF proc.stderr = "piped" THEN errLog ELSE <<>>)
           /\ result.kind = "PugError" <=> output.stderr # <<>>

\* the write to the pipe failed, and the call returned Io at once
C8_Witness ==
    /\ pc = "done"
    /\ events = <<"built", "spawned", "unwrapped", "write_failed">>
    /\ result = ErrIo("BrokenPipe")
    /\ spawns = 1

\* a completed invocation that returned PugError
C8_Witness_completed ==
    /\ pc = "done" /\ entry = "path"
    /\ events = PathRun
    /\ result.kind = "PugError" /\ Len(result.text) = MaxErr
    /\ Len(outLog) = MaxOut

\* C9: against a compiler that reads its input to the end, then writes and
\* exits, and with pipes of bounded capacity, every call of
\* evaluate_string_with_options returns, whatever the template's length.
C9_Returns == <>(pc = "done")

\* a template longer than the pipe was written, and output longer than the
\* pipe came back
C9_Witness ==
    /\ pc = "done"
    /\ Len(s) > PipeCap
    /\ result.kind = "Ok" /\ Len(result.text) > PipeCap
    /\ proc.eof /\ proc.state = "reaped"

\* C10: the unwrap of child.stdin never meets None: past a successful spawn
\* the child has a piped standard input whose handle is still in place; a
\* failed spawn returns Io before the unwrap.
C10_UnwrapIsSome ==
    /\ ~panicked
    /\ pc = "unwrap" => (child.stdin = "some" /\ proc.stdin = "piped")
    /\ (entry = "string" /\ Occurs("spawn_failed")) =>
           /\ pc = "done" /\ result = ErrIo("NotFound")
           /\ ~Occurs("unwrapped")

C10_Witness ==
    /\ pc = "write_all"
    /\ Occurs("unwrapped")
    /\ child.stdin = "some"
    /\ ~panicked

====
